---- MODULE Spec2Model ----
(***************************************************************************)
(* A model of the baml_elixir native bridge:                               *)
(*   - the value codec of lib.rs (term_to_baml_value, baml_value_to_term), *)
(*   - the declaration parser of type_builder.rs (parse_type_builder_spec  *)
(*     and the functions below it) acting on a TypeBuilder registry,       *)
(*   - the NIF entry points call and stream of lib.rs (prepare_request,    *)
(*     the engine invocation, the streaming callback).                     *)
(*                                                                         *)
(* Erlang terms, BamlValues and TypeIRs are pairs <<kind, payload>>.        *)
(***************************************************************************)
EXTENDS Integers, Sequences, FiniteSets, TLC

VARIABLES
    \* --- value codec, applied as a pure function ---
    cpc,      \* "value" | "term" | "encfail" | "done" | "idle"
    cval,     \* the BamlValue given to baml_value_to_term (NoValue when a term was given)
    cterm,    \* the term given to term_to_baml_value
    cres,     \* the result of term_to_baml_value
    \* --- declaration parser, applied to one TypeBuilder ---
    decls,    \* the list of declaration items given to parse_type_builder_spec
    pos,      \* number of items whose parse_type_builder_item has returned Ok
    reg,      \* the TypeBuilder: classes and enums, in insertion order
    pst,      \* "run" | "ok" | "err" | "blocked" | "panicked" | "idle"
    perr,     \* the error returned ("" while there is none)
    \* --- the NIFs call and stream, one record per call in flight ---
    calls,    \* [Calls -> record], see IdleCall
    mailbox   \* [Calls -> sequence of messages sent to the caller's pid]

codecVars  == <<cpc, cval, cterm, cres>>
parserVars == <<decls, pos, reg, pst, perr>>
bridgeVars == <<calls, mailbox>>
vars == <<cpc, cval, cterm, cres, decls, pos, reg, pst, perr, calls, mailbox>>

-----------------------------------------------------------------------------
(* Results: Ok(v) / Err(e), as Rust's Result.                              *)
Ok(x)   == <<"ok", x>>
Err(e)  == <<"err", e>>
IsOk(r) == r[1] = "ok"

(* Terms, values and types are pairs <<kind, payload>>.                     *)
Kind(x) == x[1]
Val(x)  == x[2]

(* Erlang terms as rustler sees them.                                      *)
Atom(n)   == <<"atom", n>>
Str(s)    == <<"str", s>>
IntT(i)   == <<"int", i>>
FloatT(f) == <<"float", f>>
ListT(s)  == <<"list", s>>
MapT(f)   == <<"map", f>>
TupleT(s) == <<"tuple", s>>
Nil       == Atom("nil")
EmptyMap  == <<>>

(* BamlValue.                                                              *)
BNull         == <<"Null", "null">>
BBool(b)      == <<"Bool", b>>
BInt(i)       == <<"Int", i>>
BFloat(f)     == <<"Float", f>>
BString(s)    == <<"String", s>>
BList(s)      == <<"List", s>>
BMap(f)       == <<"Map", f>>
BClass(n, f)  == <<"Class", f, n>>
BEnum(n, var) == <<"Enum", var, n>>
TypeName(x)   == x[3]
BMedia        == <<"Media", "media">>
NoValue       == <<"none", "none">>

-----------------------------------------------------------------------------
(* Helpers on sequences and maps.                                          *)
Range(s) == {s[i] : i \in DOMAIN s}

\* The first index of a sequence of booleans that holds FALSE, or 0.
FirstBad(good) ==
    IF \E i \in DOMAIN good : ~good[i]
    THEN CHOOSE i \in DOMAIN good : ~good[i] /\ \A j \in 1..(i-1) : good[j]
    ELSE 0

(* The iteration order of MapIterator over a small map: the keys in Erlang *)
(* term order, number < atom < tuple < map < list < binary.  The order of  *)
(* two keys of the same kind is fixed but arbitrary.                       *)
TermRank(k) ==
    CASE Kind(k) \in {"int", "float"} -> 0
      [] Kind(k) = "atom"  -> 1
      [] Kind(k) = "tuple" -> 2
      [] Kind(k) = "map"   -> 3
      [] Kind(k) = "list"  -> 4
      [] OTHER         -> 5

RECURSIVE KeysInOrder(_)
KeysInOrder(ks) ==
    IF ks = {} THEN <<>>
    ELSE LET k == CHOOSE x \in ks : \A y \in ks : TermRank(x) <= TermRank(y)
         IN  <<k>> \o KeysInOrder(ks \ {k})

MapIterator(m) == KeysInOrder(DOMAIN m)

-----------------------------------------------------------------------------
(* lib.rs: term_to_string.  An atom gives its name, a binary its text; any *)
(* other term fails in term.decode::<String>().                            *)
\* A faulty variant: only a binary is taken, an atom is refused.
term_to_string_of_binary(term) ==
    IF Kind(term) = "str" THEN Ok(Val(term)) ELSE Err("badarg")

term_to_string(term) ==
    IF Kind(term) = "atom" THEN Ok(Val(term))
    ELSE IF Kind(term) = "str" THEN Ok(Val(term))
    ELSE Err("badarg")

(* lib.rs: term_to_baml_value.  The arms in the order of the source: a     *)
(* number (i64 first, then f64), a binary, a list, a map, the atom nil;    *)
(* everything else is unsupported.  There is no arm for true and false.    *)
Unsupported == "Unsupported type"

\* A faulty variant: decode::<f64>() tried first, so every number is a Float.
DecodeNumberFloatFirst(term) == Ok(BFloat(Val(term)))

\* Lines 37-44: decode::<i64>() succeeds on an integer term and fails on a
\* float term, which decode::<f64>() then takes.  (Every integer of the model
\* fits i64.)
DecodeNumber(term) ==
    IF Kind(term) = "int" THEN Ok(BInt(Val(term))) ELSE Ok(BFloat(Val(term)))

RECURSIVE term_to_baml_value(_)
\* One step of the loop over a map's entries (lines 60-66): BamlMap::insert
\* replaces the value of a key that is already there.
RECURSIVE DecodeEntries(_, _, _, _)
DecodeEntries(m, keys, i, acc) ==
    IF i > Len(keys) THEN Ok(BMap(acc))
    ELSE LET key   == term_to_string(keys[i])
             value == term_to_baml_value(m[keys[i]])
         IN  IF ~IsOk(key) THEN key
             ELSE IF ~IsOk(value) THEN value
             ELSE DecodeEntries(m, keys, i + 1,
                    [k \in (DOMAIN acc) \cup {Val(key)} |->
                        IF k = Val(key) THEN Val(value) ELSE acc[k]])

term_to_baml_value(term) ==
    CASE Kind(term) \in {"int", "float"} -> DecodeNumber(term)
      [] Kind(term) = "str"   -> Ok(BString(Val(term)))
      [] Kind(term) = "list"  ->
            LET items == [i \in DOMAIN Val(term) |-> term_to_baml_value(Val(term)[i])]
                bad   == FirstBad([i \in DOMAIN items |-> IsOk(items[i])])
            IN  IF bad # 0 THEN items[bad]
                ELSE Ok(BList([i \in DOMAIN items |-> Val(items[i])]))
      [] Kind(term) = "map"   -> DecodeEntries(Val(term), MapIterator(Val(term)), 1, EmptyMap)
      [] term = Nil       -> Ok(BNull)
      [] OTHER            -> Err(Unsupported)

(* lib.rs: baml_value_to_term.                                             *)
MediaUnsupported == "Media type not yet supported"
ClassMarker == Atom("__baml_class__")
EnumMarker  == Atom("__baml_enum__")
EnumValueKey == Atom("value")

RECURSIVE baml_value_to_term(_)
baml_value_to_term(value) ==
    CASE Kind(value) = "String" -> Ok(Str(Val(value)))
      [] Kind(value) = "Int"    -> Ok(IntT(Val(value)))
      [] Kind(value) = "Float"  -> Ok(FloatT(Val(value)))
      [] Kind(value) = "Bool"   -> Ok(Atom(IF Val(value) THEN "true" ELSE "false"))
      [] Kind(value) = "Null"   -> Ok(Nil)
      [] Kind(value) = "List"   ->
            LET terms == [i \in DOMAIN Val(value) |-> baml_value_to_term(Val(value)[i])]
                bad   == FirstBad([i \in DOMAIN terms |-> IsOk(terms[i])])
            IN  IF bad # 0 THEN terms[bad]
                ELSE Ok(ListT([i \in DOMAIN terms |-> Val(terms[i])]))
      [] Kind(value) = "Map"    ->
            LET enc == [k \in DOMAIN Val(value) |-> baml_value_to_term(Val(value)[k])]
            IN  IF \E k \in DOMAIN enc : ~IsOk(enc[k])
                THEN enc[CHOOSE k \in DOMAIN enc : ~IsOk(enc[k])]
                ELSE Ok(MapT([k \in {Str(s) : s \in DOMAIN enc} |-> Val(enc[Val(k)])]))
      [] Kind(value) = "Class"  ->
            \* The marker is put first, the fields after it: a field of the
            \* marker's name replaces it (map_put).
            LET enc == [k \in DOMAIN Val(value) |-> baml_value_to_term(Val(value)[k])]
            IN  IF \E k \in DOMAIN enc : ~IsOk(enc[k])
                THEN enc[CHOOSE k \in DOMAIN enc : ~IsOk(enc[k])]
                ELSE Ok(MapT([k \in {Atom(s) : s \in DOMAIN enc} \cup {ClassMarker} |->
                               IF Val(k) \in DOMAIN enc THEN Val(enc[Val(k)]) ELSE Str(TypeName(value))]))
      [] Kind(value) = "Media"  -> Err(MediaUnsupported)
      [] Kind(value) = "Enum"   ->
            Ok(MapT((EnumMarker :> Str(TypeName(value))) @@ (EnumValueKey :> Str(Val(value)))))

-----------------------------------------------------------------------------
(* The codec applied as a pure function: Init draws a BamlValue (an engine *)
(* result, encoded and then decoded again) or a term (a caller's argument, *)
(* decoded).                                                               *)
MaxLen == 2

SeqsUpTo(S, n) == UNION {[1..k -> S] : k \in 0..n}
MapsOver(K, S) == UNION {[d -> S] : d \in SUBSET K}

FieldKeys == {"a", "b"}
ValueLeaves ==
    {BNull, BBool(TRUE), BBool(FALSE), BInt(1), BFloat(1), BString("a"),
     BEnum("Color", "red"), BMedia}
\* Values whose field or key has the name of the class marker.
MarkerValues ==
    {BClass("Pet", "__baml_class__" :> BString("x")),
     BClass("Pet", ("__baml_class__" :> BString("x")) @@ ("a" :> BInt(1))),
     BMap("__baml_class__" :> BString("Pet"))}
Values1 ==
    ValueLeaves \cup MarkerValues
    \cup {BList(s) : s \in SeqsUpTo(ValueLeaves, MaxLen)}
    \cup {BMap(f) : f \in MapsOver(FieldKeys, ValueLeaves)}
    \cup {BClass("Pet", f) : f \in MapsOver(FieldKeys, ValueLeaves)}
Values2 ==
    Values1
    \cup {BList(<<x>>) : x \in Values1}
    \cup {BMap("a" :> x) : x \in Values1}
    \cup {BClass("Pet", "a" :> x) : x \in Values1}

TermKeys == {Atom("a"), Str("a"), Str("b"), IntT(1)}
TermLeaves ==
    {Nil, Atom("true"), Atom("false"), Atom("foo"), IntT(1), FloatT(1), Str("a"),
     TupleT(<<Atom("ok"), IntT(1)>>)}
TermMapLeaves == {IntT(1), Str("a"), Atom("true")}
Terms1 ==
    TermLeaves
    \cup {ListT(s) : s \in SeqsUpTo(TermLeaves, MaxLen)}
    \cup {MapT(f) : f \in MapsOver(TermKeys, TermMapLeaves)}
Terms2 ==
    Terms1
    \cup {ListT(<<x>>) : x \in Terms1}
    \cup {MapT(Str("a") :> x) : x \in Terms1}

NoRes == Err("none")

IdleCodec == cpc = "idle" /\ cval = NoValue /\ cterm = Nil /\ cres = NoRes

CodecInit ==
    /\ cres = NoRes
    /\ \/ cpc = "value" /\ cval \in Values2 /\ cterm = Nil
       \/ cpc = "term" /\ cval = NoValue /\ cterm \in Terms2

\* baml_value_to_term applied to the value.
Encode ==
    /\ cpc = "value"
    /\ LET r == baml_value_to_term(cval)
       IN  IF IsOk(r) THEN cpc' = "term" /\ cterm' = Val(r)
           ELSE cpc' = "encfail" /\ cterm' = cterm
    /\ UNCHANGED <<cval, cres, parserVars, bridgeVars>>

\* term_to_baml_value applied to the term.
Decode ==
    /\ cpc = "term"
    /\ cres' = term_to_baml_value(cterm)
    /\ cpc' = "done"
    /\ UNCHANGED <<cval, cterm, parserVars, bridgeVars>>

-----------------------------------------------------------------------------
(* TypeIR, as built by parse_field_type.                                   *)
TPrim(k)    == <<"prim", k>>
TLitStr(x)  == <<"litstr", x>>
TLitInt(x)  == <<"litint", x>>
TLitBool(x) == <<"litbool", x>>
TClass(n)   == <<"class", n>>
TEnum(n)    == <<"enum", n>>
TList(x)    == <<"list", x>>
TMap(k, x)  == <<"map", <<k, x>>>>
TUnion(xs)  == <<"union", xs>>
NoType      == <<"unset", "unset">>

(* The TypeBuilder of baml_runtime: classes and enums by name, in          *)
(* insertion order; a class holds its properties, an enum its values.  A   *)
(* description is <<>> (none) or <<text>>.                                 *)
EmptyReg == [classes |-> <<>>, enums |-> <<>>]

IndexOfName(entries, n) ==
    IF \E i \in DOMAIN entries : entries[i].name = n
    THEN CHOOSE i \in DOMAIN entries : entries[i].name = n
    ELSE 0

\* TypeBuilder::upsert_class: get or create.
upsert_class(r, n) ==
    IF IndexOfName(r.classes, n) # 0 THEN r
    ELSE [r EXCEPT !.classes = Append(@, [name |-> n, props |-> <<>>])]

\* ClassBuilder::upsert_property: get or create, the type not yet set.
upsert_property(r, c, f) ==
    LET ci == IndexOfName(r.classes, c)
    IN  IF IndexOfName(r.classes[ci].props, f) # 0 THEN r
        ELSE [r EXCEPT !.classes[ci].props =
                 Append(@, [name |-> f, ty |-> NoType, desc |-> <<>>])]

\* PropertyBuilder::set_type.
set_type(r, c, f, ty) ==
    LET ci == IndexOfName(r.classes, c)
        fi == IndexOfName(r.classes[ci].props, f)
    IN  [r EXCEPT !.classes[ci].props[fi].ty = ty]

\* PropertyBuilder::with_meta("description", ..).
property_with_meta(r, c, f, d) ==
    LET ci == IndexOfName(r.classes, c)
        fi == IndexOfName(r.classes[ci].props, f)
    IN  [r EXCEPT !.classes[ci].props[fi].desc = <<d>>]

\* TypeBuilder::upsert_enum: get or create.
upsert_enum(r, n) ==
    IF IndexOfName(r.enums, n) # 0 THEN r
    ELSE [r EXCEPT !.enums = Append(@, [name |-> n, values |-> <<>>])]

\* EnumBuilder::upsert_value: get or create.
upsert_value(r, e, v) ==
    LET ei == IndexOfName(r.enums, e)
    IN  IF IndexOfName(r.enums[ei].values, v) # 0 THEN r
        ELSE [r EXCEPT !.enums[ei].values = Append(@, [name |-> v, desc |-> <<>>])]

\* ValueBuilder::with_meta("description", ..).
value_with_meta(r, e, v, d) ==
    LET ei == IndexOfName(r.enums, e)
        vi == IndexOfName(r.enums[ei].values, v)
    IN  [r EXCEPT !.enums[ei].values[vi].desc = <<d>>]

-----------------------------------------------------------------------------
(* type_builder.rs.  Every parse function gives [st, reg, err, ty]:        *)
(*   st = "ok"     : it returned Ok, reg is the registry after it;         *)
(*   st = "err"    : it returned Err(err), reg is the registry as left;    *)
(*   st = "relock" : it reached lock() on a class entry whose guard an     *)
(*                   enclosing parse_class_item still holds.               *)
(* held is the set of class names whose guard is held by the callers.      *)
POk(r)      == [st |-> "ok",     reg |-> r, err |-> "", ty |-> NoType]
PType(r, x) == [st |-> "ok",     reg |-> r, err |-> "", ty |-> x]
PErr(r, e)  == [st |-> "err",    reg |-> r, err |-> e,  ty |-> NoType]
PRelock(r)  == [st |-> "relock", reg |-> r, err |-> "", ty |-> NoType]

ClassStructName     == "Elixir.BamlElixir.TypeBuilder.Class"
EnumStructName      == "Elixir.BamlElixir.TypeBuilder.Enum"
EnumValueStructName == "Elixir.BamlElixir.TypeBuilder.EnumValue"
FieldStructName     == "Elixir.BamlElixir.TypeBuilder.Field"
ListStructName      == "Elixir.BamlElixir.TypeBuilder.List"
MapStructName       == "Elixir.BamlElixir.TypeBuilder.Map"
UnionStructName     == "Elixir.BamlElixir.TypeBuilder.Union"

NotStringOrAtom == "Term is not a string or atom"

\* type_builder.rs: term_to_string.
tb_term_to_string(term) ==
    IF Kind(term) = "atom" THEN Ok(Val(term))
    ELSE IF Kind(term) = "str" THEN Ok(Val(term))
    ELSE Err(NotStringOrAtom)

(* The loops "for (key_term, value_term) in iter { let key =               *)
(* term_to_string(key_term)?; match key.as_str() { .. } }": an entry is    *)
(* selected by the text of its key, so the atom name and the binary "name" *)
(* select alike, and the last one in iteration order stays.                *)
HasKey(m, name) == Atom(name) \in DOMAIN m \/ Str(name) \in DOMAIN m
GetKey(m, name) == IF Str(name) \in DOMAIN m THEN m[Str(name)] ELSE m[Atom(name)]
KeyValues(m, name) == {m[k] : k \in {Atom(name), Str(name)} \cap DOMAIN m}
BadKey(m) == \E k \in DOMAIN m : ~IsOk(tb_term_to_string(k))
\* Some entry named by one of names has a value term_to_string rejects.
BadText(m, names) ==
    \E n \in names : \E x \in KeyValues(m, n) : ~IsOk(tb_term_to_string(x))

RECURSIVE parse_class_item(_, _, _)
RECURSIVE parse_field_type(_, _, _)

\* Lines 161-205.  The entries are visited in iteration order, and the first
\* one that fails decides the error.
EnumValueEntryError(m, k) ==
    LET key == tb_term_to_string(k)
    IN  IF ~IsOk(key) THEN NotStringOrAtom
        ELSE IF Val(key) \in {"__struct__", "value", "description"}
                /\ ~IsOk(tb_term_to_string(m[k])) THEN NotStringOrAtom
        ELSE IF Val(key) = "__struct__" /\ Val(tb_term_to_string(m[k])) # EnumValueStructName
             THEN "Expected EnumValue struct"
        ELSE ""

parse_enum_value_item(value_term, r, enum_name) ==
    IF Kind(value_term) # "map" THEN PErr(r, "Invalid enum value map")
    ELSE LET m    == Val(value_term)
             keys == MapIterator(m)
             bad  == FirstBad([i \in DOMAIN keys |-> EnumValueEntryError(m, keys[i]) = ""])
         IN  IF bad # 0 THEN PErr(r, EnumValueEntryError(m, keys[bad]))
             ELSE IF ~HasKey(m, "value") THEN PErr(r, "Enum value missing value field")
             ELSE LET value_name == Val(tb_term_to_string(GetKey(m, "value")))
                      r1 == upsert_value(r, enum_name, value_name)
                  IN  IF HasKey(m, "description")
                      THEN POk(value_with_meta(r1, enum_name, value_name,
                                   Val(tb_term_to_string(GetKey(m, "description")))))
                      ELSE POk(r1)

\* Lines 151-153: the values in list order, up to the first that fails.
RECURSIVE ParseEnumValues(_, _, _, _)
EnumValuesNext(one, values, i, enum_name) ==
    IF one.st # "ok" THEN one ELSE ParseEnumValues(values, i + 1, one.reg, enum_name)

ParseEnumValues(values, i, r, enum_name) ==
    IF i > Len(values) THEN POk(r)
    ELSE EnumValuesNext(parse_enum_value_item(values[i], r, enum_name), values, i, enum_name)

\* Lines 120-159.
parse_enum_item(enum_term, r) ==
    IF Kind(enum_term) # "map" THEN PErr(r, "Enum data must be a map")
    ELSE LET m == Val(enum_term)
         IN  IF BadKey(m) \/ BadText(m, {"name"}) THEN PErr(r, NotStringOrAtom)
             ELSE IF ~HasKey(m, "name") THEN PErr(r, "Enum missing name field")
             ELSE IF ~HasKey(m, "values") THEN PErr(r, "Enum missing values")
             ELSE LET enum_name == Val(tb_term_to_string(GetKey(m, "name")))
                      values    == GetKey(m, "values")
                      r1        == upsert_enum(r, enum_name)
                  IN  IF Kind(values) = "list"
                      THEN ParseEnumValues(Val(values), 1, r1, enum_name)
                      ELSE PErr(r1, "Enum values must be a list")

\* A faulty variant: the property is created before its type is parsed, and
\* stays when the type fails.
AddFieldEager(type_ir, m, parent_class, field_name) ==
    IF type_ir.st = "relock" THEN type_ir
    ELSE IF type_ir.st = "err"
    THEN PErr(upsert_property(type_ir.reg, parent_class, field_name), type_ir.err)
    ELSE LET r1 == upsert_property(type_ir.reg, parent_class, field_name)
             r2 == set_type(r1, parent_class, field_name, type_ir.ty)
         IN  IF HasKey(m, "description")
             THEN POk(property_with_meta(r2, parent_class, field_name,
                        Val(tb_term_to_string(GetKey(m, "description")))))
             ELSE POk(r2)

\* A faulty variant: the type is set only when the property is created.
AddFieldOnce(type_ir, m, parent_class, field_name) ==
    IF type_ir.st # "ok" THEN [type_ir EXCEPT !.ty = NoType]
    ELSE LET ci == IndexOfName(type_ir.reg.classes, parent_class)
         IN  IF IndexOfName(type_ir.reg.classes[ci].props, field_name) # 0
             THEN POk(type_ir.reg)
             ELSE POk(set_type(upsert_property(type_ir.reg, parent_class, field_name),
                               parent_class, field_name, type_ir.ty))

\* Lines 250-260: the field is added once its type has been parsed.
AddField(type_ir, m, parent_class, field_name) ==
    IF type_ir.st # "ok" THEN [type_ir EXCEPT !.ty = NoType]
    ELSE LET r1 == upsert_property(type_ir.reg, parent_class, field_name)
             r2 == set_type(r1, parent_class, field_name, type_ir.ty)
         IN  IF HasKey(m, "description")
             THEN POk(property_with_meta(r2, parent_class, field_name,
                        Val(tb_term_to_string(GetKey(m, "description")))))
             ELSE POk(r2)

\* Lines 207-261.  held holds parent_class: the caller's guard cls is alive.
parse_field_item(field_term, r, parent_class, held) ==
    IF Kind(field_term) # "map" THEN PErr(r, "Field must be a map")
    ELSE LET m == Val(field_term)
         IN  IF BadKey(m) \/ BadText(m, {"name", "description"})
             THEN PErr(r, NotStringOrAtom)
             ELSE IF ~HasKey(m, "name") THEN PErr(r, "Missing field name")
             ELSE IF ~HasKey(m, "type") THEN PErr(r, "Missing field type")
             ELSE AddField(parse_field_type(GetKey(m, "type"), r, held), m, parent_class,
                           Val(tb_term_to_string(GetKey(m, "name"))))

\* Lines 110-112: the fields in list order, up to the first that fails.
RECURSIVE ParseFields(_, _, _, _, _)
\* A faulty variant: a field that fails is skipped and the loop goes on.
FieldsNextSkipping(one, fields, i, class_name, held) ==
    IF one.st = "relock" THEN one
    ELSE ParseFields(fields, i + 1, one.reg, class_name, held)

FieldsNext(one, fields, i, class_name, held) ==
    IF one.st # "ok" THEN one ELSE ParseFields(fields, i + 1, one.reg, class_name, held)

ParseFields(fields, i, r, class_name, held) ==
    IF i > Len(fields) THEN POk(r)
    ELSE FieldsNext(parse_field_item(fields[i], r, class_name, held),
                    fields, i, class_name, held)

\* Lines 75-118.  The entry's guard is taken right after the upsert (line
\* 106) and held until the function returns.
parse_class_item(class_term, r, held) ==
    IF Kind(class_term) # "map" THEN PErr(r, "Class data must be a map")
    ELSE LET m == Val(class_term)
         IN  IF BadKey(m) \/ BadText(m, {"name"}) THEN PErr(r, NotStringOrAtom)
             ELSE IF ~HasKey(m, "name") THEN PErr(r, "Class missing name field")
             ELSE IF ~HasKey(m, "fields") THEN PErr(r, "Class missing fields")
             ELSE LET class_name == Val(tb_term_to_string(GetKey(m, "name")))
                      fields     == GetKey(m, "fields")
                      r1         == upsert_class(r, class_name)
                  IN  IF class_name \in held THEN PRelock(r1)
                      ELSE IF Kind(fields) = "list"
                      THEN ParseFields(Val(fields), 1, r1, class_name, held \cup {class_name})
                      ELSE PErr(r1, "Class fields must be a list")

\* A faulty variant: an atom that names no primitive is taken as string.
AtomTypePrimitiveOnly(name) ==
    IF name \in {"string", "int", "float", "bool"} THEN TPrim(name) ELSE TPrim("string")

\* Lines 275-281: the four primitive names, any other atom a class by name.
AtomType(name) ==
    IF name \in {"string", "int", "float", "bool"} THEN TPrim(name) ELSE TClass(name)

\* Lines 404-414: the alternatives of a union, in list order.
RECURSIVE ParseUnionTypes(_, _, _, _, _)
UnionTypesNext(one, types, i, held, acc) ==
    IF one.st # "ok" THEN one
    ELSE ParseUnionTypes(types, i + 1, one.reg, held, Append(acc, one.ty))

ParseUnionTypes(types, i, r, held, acc) ==
    IF i > Len(types) THEN PType(r, TUnion(acc))
    ELSE UnionTypesNext(parse_field_type(types[i], r, held), types, i, held, acc)

\* Lines 362-385: the entries of a Map struct in iteration order; kt and vt
\* are <<>> (None) or <<type>>.
RECURSIVE ParseMapEntries(_, _, _, _, _, _, _)
MapEntriesNext(one, key, m, keys, i, held, kt, vt) ==
    IF one.st # "ok" THEN one
    ELSE ParseMapEntries(m, keys, i + 1, one.reg, held,
                         IF key = "key_type" THEN <<one.ty>> ELSE kt,
                         IF key = "key_type" THEN vt ELSE <<one.ty>>)

ParseMapEntries(m, keys, i, r, held, kt, vt) ==
    IF i > Len(keys)
    THEN IF kt # <<>> /\ vt # <<>> THEN PType(r, TMap(kt[1], vt[1]))
         ELSE PErr(r, "Could not extract map key and value types")
    ELSE LET key == tb_term_to_string(keys[i])
         IN  IF ~IsOk(key) THEN PErr(r, NotStringOrAtom)
             ELSE IF Val(key) \in {"key_type", "value_type"}
             THEN MapEntriesNext(parse_field_type(m[keys[i]], r, held), Val(key),
                                 m, keys, i, held, kt, vt)
             ELSE ParseMapEntries(m, keys, i + 1, r, held, kt, vt)

\* The first entry, in iteration order, whose key reads name (0: none).
FirstNamed(m, keys, name) ==
    FirstBad([i \in DOMAIN keys |-> tb_term_to_string(keys[i]) # Ok(name)])

\* Lines 331-337, 348-350 and 445-451: the type made of a parsed part.
\* A faulty variant: the reference is given a name made up for the definition.
TypeOfSynthetic(part, ty) ==
    IF part.st # "ok" THEN part ELSE PType(part.reg, <<Kind(ty), "Inline">>)
TypeOf(part, ty) == IF part.st # "ok" THEN part ELSE PType(part.reg, ty)
ListOf(inner) == IF inner.st # "ok" THEN inner ELSE PType(inner.reg, TList(inner.ty))

\* Lines 263-463.
parse_field_type(term, r, held) ==
    CASE Kind(term) = "atom" -> PType(r, AtomType(Val(term)))
      [] Kind(term) = "str"  -> PType(r, TLitStr(Val(term)))
      [] Kind(term) = "int"  -> PType(r, TLitInt(Val(term)))
      [] Kind(term) = "map"  ->
            LET m    == Val(term)
                keys == MapIterator(m)
            IN  IF BadKey(m) \/ BadText(m, {"__struct__"}) THEN PErr(r, NotStringOrAtom)
                ELSE IF ~HasKey(m, "__struct__")
                THEN PErr(r, "Unsupported TypeBuilder struct: None")
                ELSE LET struct_type == Val(tb_term_to_string(GetKey(m, "__struct__")))
                     IN
                CASE struct_type = ClassStructName ->
                        IF BadText(m, {"name"}) THEN PErr(r, NotStringOrAtom)
                        ELSE IF ~HasKey(m, "name")
                        THEN PErr(r, "Could not extract class name")
                        ELSE LET name == Val(tb_term_to_string(GetKey(m, "name")))
                                 has_fields == \E x \in KeyValues(m, "fields") : Kind(x) = "list"
                             IN  IF has_fields
                                 THEN TypeOf(parse_class_item(term, r, held), TClass(name))
                                 ELSE PType(r, TClass(name))
                  [] struct_type = ListStructName ->
                        LET it == FirstNamed(m, keys, "type")
                        IN  IF it = 0 THEN PErr(r, "Could not extract list inner type")
                            ELSE ListOf(parse_field_type(m[keys[it]], r, held))
                  [] struct_type = MapStructName ->
                        ParseMapEntries(m, keys, 1, r, held, <<>>, <<>>)
                  [] struct_type = UnionStructName ->
                        LET it == FirstNamed(m, keys, "types")
                        IN  IF it = 0 THEN PErr(r, "Could not extract union types")
                            ELSE IF Kind(m[keys[it]]) = "list"
                            THEN ParseUnionTypes(Val(m[keys[it]]), 1, r, held, <<>>)
                            ELSE PErr(r, "Union types must be a list")
                  [] struct_type = EnumStructName ->
                        IF BadText(m, {"name"}) THEN PErr(r, NotStringOrAtom)
                        ELSE IF ~HasKey(m, "name")
                        THEN PErr(r, "Could not extract enum name")
                        ELSE LET name == Val(tb_term_to_string(GetKey(m, "name")))
                                 has_values == \E x \in KeyValues(m, "values") : Kind(x) = "list"
                             IN  IF has_values
                                 THEN TypeOf(parse_enum_item(term, r), TEnum(name))
                                 ELSE PType(r, TEnum(name))
                  [] OTHER -> PErr(r, "Unsupported TypeBuilder struct: Some(\"" \o struct_type
                                      \o "\")")
      [] OTHER -> PErr(r, "Unsupported field type")

\* A faulty variant: an item of an unknown struct is passed over.
parse_type_builder_item_lenient(term, r) ==
    IF Kind(term) # "map" THEN PErr(r, "TypeBuilder item must be a map")
    ELSE LET m == Val(term)
         IN  IF BadKey(m) \/ BadText(m, {"__struct__"}) THEN PErr(r, NotStringOrAtom)
             ELSE IF ~HasKey(m, "__struct__") THEN PErr(r, "Missing __struct__ field")
             ELSE LET item_type == Val(tb_term_to_string(GetKey(m, "__struct__")))
                  IN  CASE item_type = ClassStructName -> parse_class_item(term, r, {})
                        [] item_type = EnumStructName  -> parse_enum_item(term, r)
                        [] OTHER -> POk(r)

\* Lines 25-73.
parse_type_builder_item(term, r) ==
    IF Kind(term) # "map" THEN PErr(r, "TypeBuilder item must be a map")
    ELSE LET m == Val(term)
         IN  IF BadKey(m) \/ BadText(m, {"__struct__"}) THEN PErr(r, NotStringOrAtom)
             ELSE IF ~HasKey(m, "__struct__") THEN PErr(r, "Missing __struct__ field")
             ELSE LET item_type == Val(tb_term_to_string(GetKey(m, "__struct__")))
                  IN  CASE item_type = ClassStructName -> parse_class_item(term, r, {})
                        [] item_type = EnumStructName  -> parse_enum_item(term, r)
                        [] OTHER -> PErr(r, "Unsupported TypeBuilder struct: " \o item_type)

\* Lines 18-22: the items in list order, up to the first that does not return Ok.
RECURSIVE ParseItems(_, _, _)
\* A faulty variant: every item is parsed into a builder of its own.
ItemsNextFresh(one, items, i) ==
    IF one.st # "ok" THEN one ELSE ParseItems(items, i + 1, EmptyReg)

ItemsNext(one, items, i) ==
    IF one.st # "ok" THEN one ELSE ParseItems(items, i + 1, one.reg)

ParseItems(items, i, r) ==
    IF i > Len(items) THEN POk(r)
    ELSE ItemsNext(parse_type_builder_item(items[i], r), items, i)

\* Lines 6-23.
MustBeList == "TypeBuilder specification must be a list"

parse_type_builder_spec(term, builder) ==
    IF Kind(term) # "list" THEN PErr(builder, MustBeList)
    ELSE ParseItems(Val(term), 1, builder)

-----------------------------------------------------------------------------
(* The declarations a caller can build: Elixir structs are maps with the   *)
(* atom key __struct__.                                                    *)
Struct(sn) == Atom("__struct__") :> Atom(sn)

ClassT(n, fields) ==
    MapT(Struct(ClassStructName) @@ (Atom("name") :> Str(n))
         @@ (Atom("fields") :> ListT(fields)))
\* A class struct that only names a class: fields is nil.
ClassRefT(n) ==
    MapT(Struct(ClassStructName) @@ (Atom("name") :> Str(n)) @@ (Atom("fields") :> Nil))
FieldT(n, ty) ==
    MapT(Struct(FieldStructName) @@ (Atom("name") :> Str(n)) @@ (Atom("type") :> ty))
FieldDescT(n, ty, d) ==
    MapT(Struct(FieldStructName) @@ (Atom("name") :> Str(n)) @@ (Atom("type") :> ty)
         @@ (Atom("description") :> d))
FieldNoName(ty) == MapT(Struct(FieldStructName) @@ (Atom("type") :> ty))
FieldNoType(n)  == MapT(Struct(FieldStructName) @@ (Atom("name") :> Str(n)))
EnumValueT(v) == MapT(Struct(EnumValueStructName) @@ (Atom("value") :> Str(v)))
EnumValueDescT(v, d) ==
    MapT(Struct(EnumValueStructName) @@ (Atom("value") :> Str(v))
         @@ (Atom("description") :> d))
EnumT(n, values) ==
    MapT(Struct(EnumStructName) @@ (Atom("name") :> Str(n))
         @@ (Atom("values") :> ListT(values)))
EnumRefT(n) ==
    MapT(Struct(EnumStructName) @@ (Atom("name") :> Str(n)) @@ (Atom("values") :> Nil))
ListS(ty)     == MapT(Struct(ListStructName) @@ (Atom("type") :> ty))
MapS(kt, vt)  == MapT(Struct(MapStructName) @@ (Atom("key_type") :> kt)
                      @@ (Atom("value_type") :> vt))
UnionS(types) == MapT(Struct(UnionStructName) @@ (Atom("types") :> ListT(types)))

MaxDecls  == 2
MaxFields == 2

\* Type payloads of a field of class A.
InlineB == ClassT("B", <<FieldT("x", Atom("int"))>>)
TypePool ==
    { Atom("string"), Atom("int"), Atom("A"), Atom("B"), Atom("true"), Atom("false"),
      ClassRefT("A"), ClassRefT("B"),
      ClassT("A", <<>>), InlineB,
      ClassT("B", <<FieldT("x", ClassT("A", <<>>))>>),
      ClassT("B", <<FieldT("x", ClassRefT("B"))>>),
      MapT(Struct(ClassStructName)), MapT(Struct(EnumStructName)),
      Str("lit"), IntT(1), FloatT(1), ListT(<<Atom("int")>>),
      ListS(Atom("int")), ListS(InlineB),
      UnionS(<<Atom("int"), Str("lit")>>), UnionS(<<InlineB, FloatT(1)>>),
      MapS(Atom("string"), Atom("int")),
      EnumRefT("E"), EnumT("E", <<EnumValueT("red"), EnumValueT("green")>>) }

FieldPool ==
    {FieldT("f", ty) : ty \in TypePool}
    \cup {FieldT("g", ty) : ty \in {Atom("int"), Str("lit"), ClassRefT("A"), InlineB}}
    \cup {FieldDescT("g", Atom("int"), Str("a g")), FieldDescT("g", Atom("int"), Nil)}
    \cup {FieldNoName(Atom("int")), FieldNoType("f"), Str("f")}

\* Declarations combined with one another.
Other(c) == IF c = "A" THEN "B" ELSE "A"
CoreItems ==
    {ClassT(c, <<FieldT(f, ty)>>) :
        c \in {"A", "B"}, f \in {"f", "g"}, ty \in {Atom("int"), Str("lit")}}
    \cup {ClassT(c, <<FieldT(f, ClassRefT(Other(c)))>>) : c \in {"A", "B"}, f \in {"f", "g"}}
    \cup { ClassT("A", <<FieldT("f", ClassT("B", <<FieldT("f", Atom("string"))>>))>>),
           EnumT("E", <<EnumValueT("red"), EnumValueT("green")>>),
           EnumT("A", <<EnumValueDescT("red", Str("a colour"))>>),
           MapT(Struct("Elixir.BamlElixir.TypeBuilder.Other")),
           MapT(Atom("name") :> Str("A")) }

\* Single items besides the classes above.
OddItems ==
    { Str("A"),
      MapT(Struct(ClassStructName) @@ (Atom("fields") :> ListT(<<>>))),
      MapT(Struct(ClassStructName) @@ (Atom("name") :> Str("A"))),
      MapT(Struct(ClassStructName) @@ (Atom("name") :> Str("A")) @@ (Atom("fields") :> Nil)),
      EnumT("E", <<Str("red"), Str("green")>>),
      EnumT("E", <<EnumValueT("red"), EnumValueT("red")>>),
      EnumT("E", <<EnumValueDescT("red", Str("a colour")), EnumValueT("green")>>),
      EnumT("E", <<EnumValueT("red"), EnumValueDescT("green", Nil)>>),
      EnumRefT("E") }

ParserInputs ==
    {ListT(s) : s \in SeqsUpTo(CoreItems, MaxDecls)}
    \cup {ListT(<<ClassT("A", fs)>>) : fs \in SeqsUpTo(FieldPool, MaxFields)}
    \cup {ListT(<<x>>) : x \in OddItems}
    \cup {MapT(EmptyMap), Nil}

IdleParser ==
    decls = Nil /\ pos = 0 /\ reg = EmptyReg /\ pst = "idle" /\ perr = ""

ParserInit ==
    decls \in ParserInputs /\ pos = 0 /\ reg = EmptyReg /\ pst = "run" /\ perr = ""

\* Lines 11-15: a term that is no list is refused.
RejectNonList ==
    /\ pst = "run" /\ Kind(decls) # "list"
    /\ pst' = "err" /\ perr' = MustBeList
    /\ UNCHANGED <<decls, pos, reg, codecVars, bridgeVars>>

(* One turn of the loop of lines 19-21.  A lock() on a mutex the thread    *)
(* already holds does not return: std documents a deadlock or a panic.     *)
ItemReturns(one) ==
    /\ reg' = one.reg
    /\ \/ one.st = "ok" /\ pos' = pos + 1 /\ pst' = "run" /\ perr' = ""
       \/ one.st = "err" /\ pos' = pos /\ pst' = "err" /\ perr' = one.err
       \/ one.st = "relock" /\ pos' = pos /\ pst' \in {"blocked", "panicked"}
          /\ perr' = ""

ParseItem ==
    /\ pst = "run" /\ Kind(decls) = "list" /\ pos < Len(Val(decls))
    /\ ItemReturns(parse_type_builder_item(Val(decls)[pos + 1], reg))
    /\ UNCHANGED <<decls, codecVars, bridgeVars>>

\* Line 22.
ParseDone ==
    /\ pst = "run" /\ Kind(decls) = "list" /\ pos = Len(Val(decls))
    /\ pst' = "ok"
    /\ UNCHANGED <<decls, pos, reg, perr, codecVars, bridgeVars>>

ParserNext == RejectNonList \/ ParseItem \/ ParseDone

-----------------------------------------------------------------------------
(* lib.rs: the NIFs call and stream.  The execution engine (BamlRuntime)   *)
(* is the environment: what it returns is drawn from small sets.           *)
Calls == {"c1"}
MaxEvents == 2

None     == [some |-> FALSE, reg |-> EmptyReg]
Some(r)  == [some |-> TRUE,  reg |-> r]

\* FunctionResult::parsed(): None, Some(Err(_)) or Some(Ok(value)).
ResultValues == {BInt(1), BClass("Pet", "a" :> BString("x")), BMedia}
FunctionResults ==
    {[p |-> "none", val |-> NoValue], [p |-> "err", val |-> NoValue]}
    \cup {[p |-> "ok", val |-> x] : x \in ResultValues}
\* What the engine hands back: Err(e), or Ok(a FunctionResult).
EngineErr == [p |-> "engine_err", val |-> NoValue]
EngineResults == {EngineErr} \cup FunctionResults

\* What a NIF gives its caller: a term {tag, v}, or a raised error.
Return(tag, x) == [tag |-> tag, term |-> x]
Raise(e)       == [tag |-> "raise", term |-> Str(e)]
NoOutcome      == [tag |-> "none", term |-> Nil]
NoParsedValue  == "No parsed value available"

NotInvoked == [fn |-> "none", params |-> NoValue, tb |-> None]

IdleCall ==
    [pc |-> "idle", kind |-> "none", pid |-> TRUE, args |-> Nil, tb |-> Nil, cr |-> Nil,
     loads |-> TRUE, params |-> NoValue, builder |-> None, engine |-> NotInvoked,
     events |-> <<>>, final |-> NoOutcome, outcome |-> NoOutcome]

IdleBridge ==
    calls = [c \in Calls |-> IdleCall] /\ mailbox = [c \in Calls |-> <<>>]

ArgTerms ==
    { Str("x"), MapT(EmptyMap), MapT(Atom("x") :> IntT(1)),
      MapT((Atom("x") :> IntT(1)) @@ (Str("y") :> ListT(<<Str("a"), Nil>>))),
      MapT(Str("x") :> Atom("true")), MapT(IntT(1) :> IntT(1)) }
TbTerms ==
    { Nil, MapT(EmptyMap), MapT(Atom("A") :> ClassT("A", <<>>)),
      ListT(<<>>), ListT(<<ClassT("A", <<FieldT("f", Atom("int"))>>)>>),
      ListT(<<EnumT("E", <<EnumValueT("red")>>), ClassT("A", <<>>)>>),
      ListT(<<Str("A")>>), ListT(<<ClassT("A", <<FieldNoName(Atom("int"))>>)>>) }
CrTerms == {Nil, MapT(Atom("primary") :> Str("client")), Str("x")}

\* Lines 174-185: the arguments, a map decoded entry by entry.
PrepareParams(args) ==
    IF Kind(args) = "map" THEN DecodeEntries(Val(args), MapIterator(Val(args)), 1, EmptyMap)
    ELSE Err("Arguments must be a map")

\* Lines 199-219: nil, or a map whose keys and primary are read with term_to_string.
PrepareClientRegistry(cr) ==
    IF cr = Nil THEN Ok("none")
    ELSE IF Kind(cr) = "map"
    THEN IF \E k \in DOMAIN Val(cr) : ~IsOk(term_to_string(k)) THEN Err("badarg")
         ELSE IF \E k \in DOMAIN Val(cr) :
                    Val(term_to_string(k)) = "primary" /\ ~IsOk(term_to_string(Val(cr)[k]))
         THEN Err("badarg")
         ELSE Ok("some")
    ELSE Err("Client registry must be nil or a map")

\* Lines 221-232: a TypeBuilder is made, and the specification parsed into
\* it, when tb_elixir is a map.
BuilderOf(res) ==
    IF res.st = "ok" THEN Ok(Some(res.reg))
    ELSE Err(IF res.st = "err" THEN res.err ELSE "relock")

PrepareTypeBuilder(tb_elixir) ==
    IF Kind(tb_elixir) = "map"
    THEN BuilderOf(parse_type_builder_spec(tb_elixir, EmptyReg))
    ELSE Ok(None)

\* Lines 151-235: the first step that fails decides the error.
Prepared(loads, params, client, tb) ==
    IF ~loads THEN Err("runtime")
    ELSE IF ~IsOk(params) THEN params
    ELSE IF ~IsOk(client) THEN client
    ELSE IF ~IsOk(tb) THEN tb
    ELSE Ok([params |-> Val(params), tb |-> Val(tb)])

prepare_request(args, loads, cr, tb_elixir) ==
    Prepared(loads, PrepareParams(args), PrepareClientRegistry(cr),
             PrepareTypeBuilder(tb_elixir))

\* Lines 237-248.
parse_function_result_call(result) ==
    CASE result.p = "ok" ->
            LET term == baml_value_to_term(result.val)
            IN  IF IsOk(term) THEN Return("ok", Val(term)) ELSE Raise(Val(term))
      [] result.p = "err"  -> Return("error", Str("parse error"))
      [] result.p = "none" -> Return("error", Str(NoParsedValue))

\* A faulty variant: a result without a parsed value is taken as nil.
parse_function_result_stream_or_nil(result) ==
    CASE result.p = "ok" ->
            LET term == baml_value_to_term(result.val)
            IN  IF IsOk(term) THEN term
                ELSE Err("Failed to convert BAML value to term")
      [] result.p = "err"  -> Err("parse error")
      [] result.p = "none" -> Ok(Nil)

\* Lines 250-265.
parse_function_result_stream(result) ==
    CASE result.p = "ok" ->
            LET term == baml_value_to_term(result.val)
            IN  IF IsOk(term) THEN term
                ELSE Err("Failed to convert BAML value to term")
      [] result.p = "err"  -> Err("parse error")
      [] result.p = "none" -> Err(NoParsedValue)

\* A faulty variant: a partial result that gives no term is reported.
on_event_reporting(r) ==
    LET parsed == parse_function_result_stream(r)
    IN  IF IsOk(parsed) THEN <<[tag |-> "partial", term |-> Val(parsed)]>>
        ELSE <<[tag |-> "error", term |-> Str(Val(parsed))]>>

\* Lines 314-328: the messages on_event sends for one partial result.
on_event(r) ==
    LET parsed == parse_function_result_stream(r)
    IN  IF IsOk(parsed) THEN <<[tag |-> "partial", term |-> Val(parsed)]>> ELSE <<>>

\* Lines 350-361: what stream returns for run_sync's result.
StreamFinal(result) ==
    CASE result.p = "engine_err" -> Return("error", Str("engine error"))
      [] result.p = "ok" ->
            LET term == baml_value_to_term(result.val)
            IN  IF IsOk(term) THEN Return("done", Val(term)) ELSE Raise(Val(term))
      [] result.p = "err"  -> Return("error", Str("parse error"))
      [] result.p = "none" -> Return("error", Str(NoParsedValue))

\* The caller enters call (lines 268-276) or stream (lines 299-309).
Invoke(c) ==
    /\ calls[c].pc = "idle"
    /\ \E kind \in {"call", "stream"}, pid \in BOOLEAN, args \in ArgTerms,
          tb \in TbTerms, cr \in CrTerms, loads \in BOOLEAN :
          /\ kind = "call" => pid
          /\ calls' = [calls EXCEPT ![c] =
                [@ EXCEPT !.pc = "entered", !.kind = kind, !.pid = pid, !.args = args,
                          !.tb = tb, !.cr = cr, !.loads = loads]]
    /\ UNCHANGED <<mailbox, codecVars, parserVars>>

\* Lines 277-278 and 310-312: the pid is decoded, then prepare_request runs.
AfterPrepare(cl, req) ==
    IF ~cl.pid THEN [cl EXCEPT !.pc = "done", !.outcome = Raise("badarg")]
    ELSE IF ~IsOk(req) THEN [cl EXCEPT !.pc = "done", !.outcome = Raise(Val(req))]
    ELSE [cl EXCEPT !.pc = "ready", !.params = Val(req).params, !.builder = Val(req).tb]

Prepare(c) ==
    /\ calls[c].pc = "entered"
    /\ calls' = [calls EXCEPT ![c] =
          AfterPrepare(@, prepare_request(@.args, @.loads, @.cr, @.tb))]
    /\ UNCHANGED <<mailbox, codecVars, parserVars>>

\* Lines 281-295: call_function_sync, and its result handled.
EngineCall(c) ==
    /\ calls[c].pc = "ready" /\ calls[c].kind = "call"
    /\ \E result \in EngineResults :
          calls' = [calls EXCEPT ![c] =
             [@ EXCEPT !.pc = "done",
                       !.engine = [fn |-> "call_function_sync",
                                   params |-> calls[c].params,
                                   tb |-> calls[c].builder],
                       !.final = result,
                       !.outcome = IF result.p = "engine_err"
                                   THEN Return("error", Str("engine error"))
                                   ELSE parse_function_result_call(result)]]
    /\ UNCHANGED <<mailbox, codecVars, parserVars>>

\* Lines 330-338 and 363: stream_function gives a stream or fails.
StreamFunction(c) ==
    /\ calls[c].pc = "ready" /\ calls[c].kind = "stream"
    /\ \E started \in BOOLEAN :
          calls' = [calls EXCEPT ![c] =
             [@ EXCEPT !.pc = IF started THEN "streaming" ELSE "done",
                       !.engine = [fn |-> "stream_function",
                                   params |-> calls[c].params,
                                   tb |-> calls[c].builder],
                       !.final = IF started THEN @ ELSE EngineErr,
                       !.outcome = IF started THEN @
                                   ELSE Return("error", Str("engine error"))]]
    /\ UNCHANGED <<mailbox, codecVars, parserVars>>

\* run_sync calls on_event with a partial result.
OnEvent(c) ==
    /\ calls[c].pc = "streaming" /\ Len(calls[c].events) < MaxEvents
    /\ \E r \in FunctionResults :
          /\ calls' = [calls EXCEPT ![c].events = Append(@, r)]
          /\ mailbox' = [mailbox EXCEPT ![c] = @ \o on_event(r)]
    /\ UNCHANGED <<codecVars, parserVars>>

\* Lines 342-361: run_sync returns, and stream returns what it makes of it.
RunSyncReturns(c) ==
    /\ calls[c].pc = "streaming"
    /\ \E result \in EngineResults :
          calls' = [calls EXCEPT ![c] =
             [@ EXCEPT !.pc = "done", !.final = result, !.outcome = StreamFinal(result)]]
    /\ UNCHANGED <<mailbox, codecVars, parserVars>>

BridgeNext(c) ==
    \/ Invoke(c) \/ Prepare(c) \/ EngineCall(c)
    \/ StreamFunction(c) \/ OnEvent(c) \/ RunSyncReturns(c)

-----------------------------------------------------------------------------
(* The specifications.  Spec: one caller goes through call or stream.      *)
(* SpecParser: parse_type_builder_spec applied to a declaration list.      *)
(* SpecCodec: the codec applied to a value or a term.                      *)
Init == IdleCodec /\ IdleParser /\ IdleBridge
Next == \E c \in Calls : BridgeNext(c)
Spec == Init /\ [][Next]_vars

InitParser == IdleCodec /\ ParserInit /\ IdleBridge
NextParser == ParserNext
SpecParser == InitParser /\ [][NextParser]_vars

\* SpecPair: two callers go through call, their steps interleaved.
Pair == {"c1", "c2"}
PairTbTerms ==
    { Nil, MapT(EmptyMap),
      ListT(<<ClassT("A", <<FieldT("f", Atom("int"))>>)>>),
      ListT(<<EnumT("E", <<EnumValueT("red")>>), ClassT("B", <<>>)>>) }
\* A caller enters call (lines 268-276) with arguments that decode.
InvokeCall(c) ==
    /\ calls[c].pc = "idle"
    /\ \E tb \in PairTbTerms :
          calls' = [calls EXCEPT ![c] =
                [@ EXCEPT !.pc = "entered", !.kind = "call", !.args = MapT(EmptyMap),
                          !.tb = tb]]
    /\ UNCHANGED <<mailbox, codecVars, parserVars>>
InitPair ==
    /\ IdleCodec /\ IdleParser
    /\ calls = [c \in Pair |-> IdleCall] /\ mailbox = [c \in Pair |-> <<>>]
NextPair == \E c \in Pair : InvokeCall(c) \/ Prepare(c) \/ EngineCall(c)
SpecPair == InitPair /\ [][NextPair]_vars

InitCodec == CodecInit /\ IdleParser /\ IdleBridge
NextCodec == Encode \/ Decode
SpecCodec == InitCodec /\ [][NextCodec]_vars
-----------------------------------------------------------------------------
(* Properties of the codec, checked under SpecCodec.                       *)

\* A value made of Null, Int, Float, String, List and Map only.
RECURSIVE Plain(_)
Plain(v) ==
    CASE Kind(v) \in {"Null", "Int", "Float", "String"} -> TRUE
      [] Kind(v) = "List" -> \A i \in DOMAIN Val(v) : Plain(Val(v)[i])
      [] Kind(v) = "Map"  -> \A k \in DOMAIN Val(v) : Plain(Val(v)[k])
      [] OTHER -> FALSE

RECURSIVE HasKind(_, _)
HasKind(v, kinds) ==
    \/ Kind(v) \in kinds
    \/ Kind(v) \in {"List", "Map", "Class"} /\ \E k \in DOMAIN Val(v) : HasKind(Val(v)[k], kinds)

\* A value was encoded and the term decoded again.
RoundTripDone == cpc = "done" /\ cval # NoValue

RECURSIVE InGrammar(_)
InGrammar(t) ==
    CASE Kind(t) = "atom" -> Val(t) \in {"nil", "true", "false"}
      [] Kind(t) \in {"int", "float", "str"} -> TRUE
      [] Kind(t) = "list" -> \A i \in DOMAIN Val(t) : InGrammar(Val(t)[i])
      [] Kind(t) = "map"  -> \A k \in DOMAIN Val(t) :
                                Kind(k) \in {"atom", "str"} /\ InGrammar(Val(t)[k])
      [] OTHER -> FALSE

\* The variant term_to_baml_value owes a term of the grammar.
VariantOf(t) ==
    CASE Kind(t) = "atom"  -> IF t = Nil THEN "Null" ELSE "Bool"
      [] Kind(t) = "int"   -> "Int"
      [] Kind(t) = "float" -> "Float"
      [] Kind(t) = "str"   -> "String"
      [] Kind(t) = "list"  -> "List"
      [] Kind(t) = "map"   -> "Map"

\* C10, as stated: term_to_baml_value succeeds on every term built from
\* Null, Bool, Int, Float, String, List and Map, and gives the value of the
\* same variant; it fails, with the unsupported-type error, only on the others.
C10_DecodeTotal ==
    (cpc = "done" /\ cval = NoValue) =>
        IF InGrammar(cterm)
        THEN IsOk(cres) /\ Kind(Val(cres)) = VariantOf(cterm)
        ELSE cres = Err(Unsupported) \/ cres = Err("badarg")

\* A boolean argument was given to term_to_baml_value.
C10_BoolDecoded ==
    cpc = "done" /\ cval = NoValue /\ cterm \in {Atom("true"), Atom("false")}

-----------------------------------------------------------------------------
(* Properties of the declaration parser, checked under SpecParser.         *)

\* C5, as stated: parse_type_builder_spec returns on every declaration list
\* and never waits on the lock of a registry entry, inline class definitions
\* that name an enclosing class included.
C5_NeverBlocks == pst \notin {"blocked", "panicked"}

\* A field of class A holds an inline definition of class A, and the parser
\* stands at the lock.
C5_InlineDefinitionOfEnclosingClass ==
    /\ pst = "blocked"
    /\ decls = ListT(<<ClassT("A", <<FieldT("f", ClassT("A", <<>>))>>)>>)

\* The declarations read back from the terms.
ItemName(item)   == Val(GetKey(Val(item), "name"))
ItemFields(item) == Val(GetKey(Val(item), "fields"))
FieldName(fld)   == Val(GetKey(Val(fld), "name"))
FieldType(fld)   == GetKey(Val(fld), "type")

\* Field types that are a primitive, a literal or a reference to a class.
ClassNames  == {"A", "B"}
SimpleTypes ==
    {Atom("int"), Atom("string"), Str("lit")}
    \cup {Atom(c) : c \in ClassNames} \cup {ClassRefT(c) : c \in ClassNames}
TypeOfSimple(ty) ==
    CASE Kind(ty) = "atom" ->
            IF Val(ty) \in {"int", "string"} THEN TPrim(Val(ty)) ELSE TClass(Val(ty))
      [] Kind(ty) = "str"  -> TLitStr(Val(ty))
      [] Kind(ty) = "map"  -> TClass(ItemName(ty))

IsSimpleField(fld) ==
    /\ Kind(fld) = "map"
    /\ DOMAIN Val(fld) = {Atom("__struct__"), Atom("name"), Atom("type")}
    /\ Val(fld)[Atom("__struct__")] = Atom(FieldStructName)
    /\ Kind(Val(fld)[Atom("name")]) = "str"
    /\ Val(fld)[Atom("type")] \in SimpleTypes
\* A class declaration with a name and a list of fields.
IsClassDecl(item) ==
    /\ Kind(item) = "map"
    /\ DOMAIN Val(item) = {Atom("__struct__"), Atom("name"), Atom("fields")}
    /\ Val(item)[Atom("__struct__")] = Atom(ClassStructName)
    /\ Kind(Val(item)[Atom("name")]) = "str"
    /\ Kind(Val(item)[Atom("fields")]) = "list"
\* A class declaration whose fields all have simple types.
IsFlatClass(item) ==
    /\ IsClassDecl(item)
    /\ \A j \in DOMAIN ItemFields(item) : IsSimpleField(ItemFields(item)[j])

\* The registry read back.
NamesIn(entries) == {entries[i].name : i \in DOMAIN entries}
NoDuplicates(entries) ==
    \A i, j \in DOMAIN entries : entries[i].name = entries[j].name => i = j
ClassNamed(r, c) == r.classes[IndexOfName(r.classes, c)]
PropNamed(r, c, f) == ClassNamed(r, c).props[IndexOfName(ClassNamed(r, c).props, f)]

\* One class A is declared, and every field of it refers to A itself.
SelfReferring ==
    /\ Kind(decls) = "list" /\ Len(Val(decls)) = 1
    /\ IsFlatClass(Val(decls)[1]) /\ ItemName(Val(decls)[1]) = "A"
    /\ ItemFields(Val(decls)[1]) # <<>>
    /\ \A j \in DOMAIN ItemFields(Val(decls)[1]) :
          FieldType(ItemFields(Val(decls)[1])[j]) \in {Atom("A"), ClassRefT("A")}

\* C6: a class A with a field whose type is a reference to A is accepted;
\* the registry then holds the one class A, the field has the type
\* ClassRef(A), and nothing else was built.
C6_SelfReference ==
    SelfReferring =>
        /\ pst \in {"run", "ok"}
        /\ pst = "ok" =>
              /\ reg.enums = <<>>
              /\ Len(reg.classes) = 1 /\ reg.classes[1].name = "A"
              /\ NamesIn(reg.classes[1].props) =
                    {FieldName(ItemFields(Val(decls)[1])[j]) :
                        j \in DOMAIN ItemFields(Val(decls)[1])}
              /\ NoDuplicates(reg.classes[1].props)
              /\ \A i \in DOMAIN reg.classes[1].props :
                    reg.classes[1].props[i].ty = TClass("A")

\* A self-referring class has been parsed, by the atom and by the struct.
C6_SelfReferenceParsed ==
    /\ SelfReferring /\ pst = "ok"
    /\ \E j \in DOMAIN ItemFields(Val(decls)[1]) :
          FieldType(ItemFields(Val(decls)[1])[j]) = ClassRefT("A")
    /\ \E j \in DOMAIN ItemFields(Val(decls)[1]) :
          FieldType(ItemFields(Val(decls)[1])[j]) = Atom("A")

\* The names an item defines, inline definitions included: what parsing it
\* alone puts into an empty registry.
DefinedBy(item) ==
    LET alone == parse_type_builder_item(item, EmptyReg).reg
    IN  {<<"class", n>> : n \in NamesIn(alone.classes)}
        \cup {<<"enum", n>> : n \in NamesIn(alone.enums)}
DistinctNames(items) ==
    \A i, j \in DOMAIN items :
        i # j => \A x \in DefinedBy(items[i]), y \in DefinedBy(items[j]) : x[2] # y[2]
Orderings(n) == {q \in [1..n -> 1..n] : \A i, j \in 1..n : q[i] = q[j] => i = j}
\* The content of a registry, the order of its classes and enums left out.
Content(r) ==
    [classes |-> {r.classes[i] : i \in DOMAIN r.classes},
     enums   |-> {r.enums[i] : i \in DOMAIN r.enums}]

\* The places (item, field) where class c declares field f.
Mentions(items, c, f) ==
    {ij \in (DOMAIN items) \X (1..MaxFields) :
        /\ ItemName(items[ij[1]]) = c
        /\ ij[2] \in DOMAIN ItemFields(items[ij[1]])
        /\ FieldName(ItemFields(items[ij[1]])[ij[2]]) = f}
Later(x, y) == x[1] > y[1] \/ (x[1] = y[1] /\ x[2] > y[2])
LastMention(items, c, f) ==
    CHOOSE x \in Mentions(items, c, f) : \A y \in Mentions(items, c, f) : ~Later(y, x)
FieldNames == {"f", "g"}

\* Class A refers to class B, by a field of type ClassRef(B).
RefersToB(item) ==
    /\ IsFlatClass(item) /\ ItemName(item) = "A"
    /\ \E j \in DOMAIN ItemFields(item) :
          FieldType(ItemFields(item)[j]) \in {Atom("B"), ClassRefT("B")}
DeclaresB(item) == IsFlatClass(item) /\ ItemName(item) = "B"

\* C7: a class A with a field of type ClassRef(B) parses whether B is
\* declared before A, after A or not at all; and every permutation of a list
\* of declarations with distinct names that parses gives the same classes,
\* enums, fields and field types.
C7_OrderIndependence ==
    Kind(decls) = "list" =>
        /\ (/\ \E i \in DOMAIN Val(decls) : RefersToB(Val(decls)[i])
            /\ \A i \in DOMAIN Val(decls) : IsFlatClass(Val(decls)[i]))
           => /\ pst \in {"run", "ok"}
              /\ pst = "ok" =>
                    /\ NamesIn(reg.classes) =
                          {ItemName(Val(decls)[i]) : i \in DOMAIN Val(decls)}
                    /\ \A f \in FieldNames :
                          LET last == LastMention(Val(decls), "A", f)
                          IN  (/\ Mentions(Val(decls), "A", f) # {}
                               /\ FieldType(ItemFields(Val(decls)[last[1]])[last[2]])
                                     \in {Atom("B"), ClassRefT("B")})
                              => PropNamed(reg, "A", f).ty = TClass("B")
        /\ (pst = "ok" /\ DistinctNames(Val(decls))) =>
              \A q \in Orderings(Len(Val(decls))) :
                  LET permuted == parse_type_builder_spec(
                                      ListT([i \in DOMAIN Val(decls) |-> Val(decls)[q[i]]]),
                                      EmptyReg)
                  IN  permuted.st = "ok" /\ Content(permuted.reg) = Content(reg)

\* B is declared after the class A that refers to it, the two have parsed,
\* and both classes are in the registry.
C7_ForwardReferenceParsed ==
    /\ pst = "ok" /\ Kind(decls) = "list" /\ Len(Val(decls)) = 2
    /\ RefersToB(Val(decls)[1]) /\ DeclaresB(Val(decls)[2])
    /\ DistinctNames(Val(decls))
    /\ NamesIn(reg.classes) = {"A", "B"}

\* C8: the registry never holds two classes, two enums, two fields of a
\* class or two values of an enum of one name; after class declarations it
\* holds one class for each declared name, whose fields are the union of the
\* fields of the declarations of that name, a field declared more than once
\* holding the type of its last declaration.
C8_IdempotentUpsert ==
    /\ NoDuplicates(reg.classes) /\ NoDuplicates(reg.enums)
    /\ \A i \in DOMAIN reg.classes : NoDuplicates(reg.classes[i].props)
    /\ \A i \in DOMAIN reg.enums : NoDuplicates(reg.enums[i].values)
    /\ (pst = "ok" /\ \A i \in DOMAIN Val(decls) : IsFlatClass(Val(decls)[i])) =>
          /\ NamesIn(reg.classes) = {ItemName(Val(decls)[i]) : i \in DOMAIN Val(decls)}
          /\ \A c \in NamesIn(reg.classes) :
                /\ NamesIn(ClassNamed(reg, c).props) =
                      {f \in FieldNames : Mentions(Val(decls), c, f) # {}}
                /\ \A f \in NamesIn(ClassNamed(reg, c).props) :
                      LET last == LastMention(Val(decls), c, f)
                      IN  PropNamed(reg, c, f).ty =
                             TypeOfSimple(FieldType(ItemFields(Val(decls)[last[1]])[last[2]]))

\* Class A was declared twice: the two declarations give different fields,
\* and both give field f, with different types.
C8_ClassDeclaredTwice ==
    /\ pst = "ok" /\ Kind(decls) = "list" /\ Len(Val(decls)) = 2
    /\ \A i \in DOMAIN Val(decls) : IsFlatClass(Val(decls)[i]) /\ ItemName(Val(decls)[i]) = "A"
    /\ Len(reg.classes) = 1
    /\ \/ /\ Len(reg.classes[1].props) = 2
       \/ /\ Len(reg.classes[1].props) = 1
          /\ FieldType(ItemFields(Val(decls)[1])[1]) # FieldType(ItemFields(Val(decls)[2])[1])
          /\ reg.classes[1].props[1].ty # TypeOfSimple(FieldType(ItemFields(Val(decls)[1])[1]))

\* The first field of a declaration that lacks its name or its type, 0 when
\* there is none; the fields before it are simple.
MissingPart(fld) ==
    /\ Kind(fld) = "map" /\ Atom("__struct__") \in DOMAIN Val(fld)
    /\ Val(fld)[Atom("__struct__")] = Atom(FieldStructName)
    /\ ~BadKey(Val(fld))
    /\ ~HasKey(Val(fld), "name") \/ ~HasKey(Val(fld), "type")
FailingField(fields) ==
    IF \E k \in DOMAIN fields :
          MissingPart(fields[k]) /\ \A j \in 1..(k - 1) : IsSimpleField(fields[j])
    THEN CHOOSE k \in DOMAIN fields :
          MissingPart(fields[k]) /\ \A j \in 1..(k - 1) : IsSimpleField(fields[j])
    ELSE 0
\* One class is declared, and a field of it lacks its name or its type.
OneClassFailing ==
    /\ Kind(decls) = "list" /\ Len(Val(decls)) = 1
    /\ IsClassDecl(Val(decls)[1]) /\ ItemName(Val(decls)[1]) = "A"
    /\ FailingField(ItemFields(Val(decls)[1])) # 0

\* C9: when field k of a class declaration lacks its name or its type, the
\* declaration fails with the missing-field error; the class then holds the
\* fields before k, each with its type, and neither field k nor a later one.
C9_NoRollback ==
    OneClassFailing =>
        LET fs == ItemFields(Val(decls)[1])
            k  == FailingField(fs)
        IN  /\ pst \in {"run", "err"}
            /\ pst = "err" =>
                  /\ perr = IF HasKey(Val(fs[k]), "name") THEN "Missing field type"
                            ELSE "Missing field name"
                  /\ reg.enums = <<>>
                  /\ NamesIn(reg.classes) = {"A"}
                  /\ NamesIn(ClassNamed(reg, "A").props) =
                        {FieldName(fs[j]) : j \in 1..(k - 1)}
                  /\ \A f \in NamesIn(ClassNamed(reg, "A").props) :
                        \E j \in 1..(k - 1) :
                            /\ FieldName(fs[j]) = f
                            /\ \A j2 \in (j + 1)..(k - 1) : FieldName(fs[j2]) # f
                            /\ PropNamed(reg, "A", f).ty = TypeOfSimple(FieldType(fs[j]))

\* A declaration has failed at its second field, which lacks its name, the
\* first field being in the registry.
C9_FailedAtSecondField ==
    /\ pst = "err" /\ OneClassFailing
    /\ FailingField(ItemFields(Val(decls)[1])) = 2
    /\ perr = "Missing field name"
    /\ Len(ClassNamed(reg, "A").props) = 1

-----------------------------------------------------------------------------
(* Properties of call and stream, checked under Spec.                      *)

Invoked(c) == calls[c].engine.fn # "none"
\* The caller gave a list of declarations, and it parses.
DeclarationsParse(c) ==
    /\ Kind(calls[c].tb) = "list"
    /\ parse_type_builder_spec(calls[c].tb, EmptyReg).st = "ok"

\* C1, as stated: when the caller gives a list of declarations that parses,
\* the engine is invoked with a registry holding the classes and enums of the
\* list; it is invoked with no registry only when the caller gave none.
C1_RegistryHandedOver ==
    \A c \in Calls :
        Invoked(c) =>
            /\ DeclarationsParse(c) =>
                  calls[c].engine.tb =
                      Some(parse_type_builder_spec(calls[c].tb, EmptyReg).reg)
            /\ calls[c].engine.tb = None => calls[c].tb = Nil

\* The engine was invoked for a caller who gave a list declaring a class.
C1_DeclarationsGiven ==
    \E c \in Calls :
        /\ Invoked(c) /\ DeclarationsParse(c)
        /\ parse_type_builder_spec(calls[c].tb, EmptyReg).reg.classes # <<>>

\* C3, as stated: the engine is invoked only when the arguments have decoded
\* and the declarations have parsed; a call whose arguments do not decode or
\* whose declarations do not parse ends with the error, the engine not invoked.
C3_PreparedBeforeInvoked ==
    \A c \in Calls :
        LET decoded == IsOk(PrepareParams(calls[c].args))
            parsed  == calls[c].tb = Nil \/ DeclarationsParse(c)
        IN  /\ Invoked(c) => decoded /\ parsed
            /\ (calls[c].pc = "done" /\ ~(decoded /\ parsed)) =>
                  ~Invoked(c) /\ calls[c].outcome.tag = "raise"

\* The caller gave a list holding something that is no declaration.
C3_MalformedDeclarationGiven ==
    \E c \in Calls :
        /\ calls[c].pc = "done" /\ Kind(calls[c].tb) = "list"
        /\ parse_type_builder_spec(calls[c].tb, EmptyReg).st = "err"

\* A result that parses and encodes.
Encodes(r) == r.p = "ok" /\ IsOk(baml_value_to_term(r.val))
\* The partial messages owed for the events so far.
RECURSIVE PartialsOf(_)
PartialsOf(events) ==
    IF events = <<>> THEN <<>>
    ELSE PartialsOf(SubSeq(events, 1, Len(events) - 1))
         \o (IF Encodes(events[Len(events)])
             THEN <<[tag |-> "partial",
                     term |-> Val(baml_value_to_term(events[Len(events)].val))]>>
             ELSE <<>>)

\* C4: in a stream, a partial result that has no parsed value, is a parse
\* error or does not encode gives the caller no message and no error; the
\* call ends with one outcome: done with the encoded value when the final
\* result parses and encodes, and an error when it is missing, is a parse
\* error, does not encode, or the engine failed.
C4_StreamOutcome ==
    \A c \in Calls :
        calls[c].kind = "stream" =>
            /\ mailbox[c] = PartialsOf(calls[c].events)
            /\ calls[c].pc # "done" => calls[c].outcome = NoOutcome
            /\ calls[c].pc = "done" =>
                  /\ calls[c].outcome.tag \in {"done", "error", "raise"}
                  /\ calls[c].engine.fn = "stream_function" =>
                        IF Encodes(calls[c].final)
                        THEN calls[c].outcome =
                                Return("done", Val(baml_value_to_term(calls[c].final.val)))
                        ELSE calls[c].outcome.tag \in {"error", "raise"}

\* A stream has ended done after a partial result that was dropped.
C4_PartialDropped ==
    \E c \in Calls :
        /\ calls[c].kind = "stream" /\ calls[c].pc = "done"
        /\ calls[c].outcome.tag = "done"
        /\ \E i \in DOMAIN calls[c].events : ~Encodes(calls[c].events[i])
        /\ \E i \in DOMAIN calls[c].events : Encodes(calls[c].events[i])

-----------------------------------------------------------------------------
(* Further properties of the codec, checked under SpecCodec.               *)

\* A value has been given to baml_value_to_term, which returned a term.
Encoded == cpc = "term" /\ cval # NoValue

\* C11, as stated: a Class with k fields encodes to a map of exactly k+1
\* entries, the class marker mapped to the type name and each field name to
\* the encoding of its value: no field overwrites the type name; and a Map
\* is never encoded with the marker.
C11_ClassEncoding ==
    Encoded =>
        /\ Kind(cval) = "Class" =>
              /\ Kind(cterm) = "map"
              /\ Cardinality(DOMAIN Val(cterm)) = Cardinality(DOMAIN Val(cval)) + 1
              /\ Val(cterm)[ClassMarker] = Str(TypeName(cval))
              /\ \A k \in DOMAIN Val(cval) :
                    /\ Atom(k) \in DOMAIN Val(cterm)
                    /\ Ok(Val(cterm)[Atom(k)]) = baml_value_to_term(Val(cval)[k])
        /\ Kind(cval) = "Map" => ClassMarker \notin DOMAIN Val(cterm)

\* A Class with a field of the marker's name has been encoded.
C11_MarkerNamedField ==
    /\ Encoded /\ Kind(cval) = "Class"
    /\ "__baml_class__" \in DOMAIN Val(cval)


\* A map has been given to term_to_baml_value, which returned.
MapDecoded == cpc = "done" /\ cval = NoValue /\ Kind(cterm) = "map"
\* Its keys are strings or atoms, and its values decode.
Decodable(m) ==
    /\ \A k \in DOMAIN m : Kind(k) \in {"atom", "str"}
    /\ \A k \in DOMAIN m : IsOk(term_to_baml_value(m[k]))

\* C20, as stated: a map whose keys are strings or atoms decodes to a Map
\* (never a Class) with as many entries as the input, each key the input key
\* as a string; the atom a and the string "a" do not collapse into one entry;
\* a key that is neither a string nor an atom makes the decode fail.
C20_OneEntryPerInputEntry ==
    MapDecoded =>
        /\ Decodable(Val(cterm)) =>
              /\ IsOk(cres) /\ Kind(Val(cres)) = "Map"
              /\ Cardinality(DOMAIN Val(Val(cres))) = Cardinality(DOMAIN Val(cterm))
              /\ DOMAIN Val(Val(cres)) = {Val(k) : k \in DOMAIN Val(cterm)}
        /\ (\E k \in DOMAIN Val(cterm) : Kind(k) \notin {"atom", "str"}) => ~IsOk(cres)

\* C20, amended: a map whose keys are strings or atoms decodes to a Map
\* (never a Class) with one entry for each distinct key text, which holds the
\* decoded value of an input key of that text: the atom a and the string "a"
\* collapse into one entry; a key that is neither a string nor an atom makes
\* the decode fail.
C20_OneEntryPerKeyText ==
    MapDecoded =>
        /\ Decodable(Val(cterm)) =>
              /\ IsOk(cres) /\ Kind(Val(cres)) = "Map"
              /\ DOMAIN Val(Val(cres)) = {Val(k) : k \in DOMAIN Val(cterm)}
              /\ \A n \in DOMAIN Val(Val(cres)) :
                    \E k \in DOMAIN Val(cterm) :
                        Val(k) = n /\ Ok(Val(Val(cres))[n]) = term_to_baml_value(Val(cterm)[k])
              /\ ({Atom("a"), Str("a")} \subseteq DOMAIN Val(cterm)) =>
                    Cardinality(DOMAIN Val(Val(cres))) < Cardinality(DOMAIN Val(cterm))
        /\ (\E k \in DOMAIN Val(cterm) : Kind(k) \notin {"atom", "str"}) => ~IsOk(cres)

\* A map holding the atom a and the string "a", with different values, has
\* been decoded.
C20_AtomAndStringKey ==
    /\ MapDecoded /\ Decodable(Val(cterm)) /\ IsOk(cres)
    /\ {Atom("a"), Str("a")} \subseteq DOMAIN Val(cterm)
    /\ Val(cterm)[Atom("a")] # Val(cterm)[Str("a")]


-----------------------------------------------------------------------------
(* Further properties of the declaration parser, checked under SpecParser. *)

\* The declaration of one class A with the one field f of type payload ty.
FieldOfA(ty) == ListT(<<ClassT("A", <<FieldT("f", ty)>>)>>)
\* The type payload of that field.
PayloadOfA == FieldType(ItemFields(Val(decls)[1])[1])
\* The type the registry holds for that field.
TypeOfF == PropNamed(reg, "A", "f").ty

\* Untagged scalars as type payloads, and the literal type of each.
LiteralPayloads == {Str("lit"), IntT(1), Atom("true"), Atom("false")}
LiteralOf(ty) ==
    CASE Kind(ty) = "str"  -> TLitStr(Val(ty))
      [] Kind(ty) = "int"  -> TLitInt(Val(ty))
      [] Kind(ty) = "atom" -> TLitBool(Val(ty))

\* C12, as stated: an untagged string s, integer i or boolean true/false as
\* the type payload of a field yields Literal(String s), Literal(Int i) or
\* Literal(Bool b), never a primitive type or a class reference.
C12_LiteralTypes ==
    (\E ty \in LiteralPayloads : decls = FieldOfA(ty)) =>
        /\ pst \in {"run", "ok"}
        /\ pst = "ok" =>
              /\ NamesIn(ClassNamed(reg, "A").props) = {"f"}
              /\ Kind(TypeOfF) \notin {"prim", "class"}
              /\ TypeOfF = LiteralOf(PayloadOfA)

\* A field whose type payload is the boolean true has been parsed.
C12_BoolPayloadParsed ==
    /\ pst = "ok" /\ decls = FieldOfA(Atom("true"))
    /\ NamesIn(ClassNamed(reg, "A").props) = {"f"}

\* C13, as stated: a non-empty sequence as the type payload of a field is
\* accepted and yields List(T), T being the type of its first element.
C13_SequenceSugar ==
    (\E ty \in TypePool : Kind(ty) = "list" /\ Val(ty) # <<>> /\ decls = FieldOfA(ty)) =>
        /\ pst \in {"run", "ok"}
        /\ pst = "ok" =>
              /\ NamesIn(ClassNamed(reg, "A").props) = {"f"}
              /\ Kind(TypeOfF) = "list"
              /\ Val(TypeOfF) = parse_field_type(Val(PayloadOfA)[1], EmptyReg, {}).ty

\* The declaration of a field whose type payload is the sequence [int] has
\* been refused.
C13_SequencePayloadRefused ==
    /\ pst = "err" /\ decls = FieldOfA(ListT(<<Atom("int")>>))
    /\ perr = "Unsupported field type"


\* A variant of an enum declaration: its name alone, or an EnumValue struct
\* with the name and, possibly, a description (nil when none is given).
IsVariant(v) ==
    \/ Kind(v) = "str"
    \/ /\ Kind(v) = "map"
       /\ {Atom("__struct__"), Atom("value")} \subseteq DOMAIN Val(v)
       /\ DOMAIN Val(v) \subseteq {Atom("__struct__"), Atom("value"), Atom("description")}
       /\ Val(v)[Atom("__struct__")] = Atom(EnumValueStructName)
       /\ Kind(Val(v)[Atom("value")]) = "str"
       /\ Atom("description") \in DOMAIN Val(v) =>
             (Val(v)[Atom("description")] = Nil \/ Kind(Val(v)[Atom("description")]) = "str")
VariantName(v) == IF Kind(v) = "str" THEN Val(v) ELSE Val(Val(v)[Atom("value")])
\* The description of a variant, as the registry holds it.
VariantDesc(v) ==
    IF Kind(v) = "map" /\ Atom("description") \in DOMAIN Val(v)
       /\ Val(v)[Atom("description")] # Nil
    THEN <<Val(Val(v)[Atom("description")])>>
    ELSE <<>>
\* One enum is declared, with a list of distinct variants.
OneEnumDeclared ==
    /\ Kind(decls) = "list" /\ Len(Val(decls)) = 1
    /\ Kind(Val(decls)[1]) = "map"
    /\ DOMAIN Val(Val(decls)[1]) = {Atom("__struct__"), Atom("name"), Atom("values")}
    /\ Val(Val(decls)[1])[Atom("__struct__")] = Atom(EnumStructName)
    /\ Kind(Val(Val(decls)[1])[Atom("name")]) = "str"
    /\ Kind(Val(Val(decls)[1])[Atom("values")]) = "list"
    /\ LET vs == Val(Val(Val(decls)[1])[Atom("values")])
       IN  /\ vs # <<>>
           /\ \A i \in DOMAIN vs : IsVariant(vs[i])
           /\ \A i, j \in DOMAIN vs : VariantName(vs[i]) = VariantName(vs[j]) => i = j
DeclaredVariants == Val(Val(Val(decls)[1])[Atom("values")])

\* C14, as stated: the declaration of an enum E with an ordered list of n
\* distinct variants succeeds; the registry then holds the enum E with those
\* n variants in the listed order, each with a description only when one was
\* given, and nothing else.
C14_EnumDeclaration ==
    OneEnumDeclared =>
        /\ pst \in {"run", "ok"}
        /\ pst = "ok" =>
              /\ reg.classes = <<>>
              /\ Len(reg.enums) = 1
              /\ reg.enums[1].name = ItemName(Val(decls)[1])
              /\ reg.enums[1].values =
                    [i \in DOMAIN DeclaredVariants |->
                        [name |-> VariantName(DeclaredVariants[i]),
                         desc |-> VariantDesc(DeclaredVariants[i])]]

\* The declaration of an enum whose variants are given by their names has
\* been refused.
C14_VariantNamesRefused ==
    /\ pst = "err" /\ OneEnumDeclared /\ perr = "Invalid enum value map"
    /\ \A i \in DOMAIN DeclaredVariants : Kind(DeclaredVariants[i]) = "str"


\* The discriminator of an item, when it has one that is a string or an atom.
HasDiscriminator(item) ==
    /\ Kind(item) = "map" /\ Atom("__struct__") \in DOMAIN Val(item)
    /\ Kind(Val(item)[Atom("__struct__")]) \in {"atom", "str"}
Discriminator(item) == Val(Val(item)[Atom("__struct__")])
\* An item that is neither a class nor an enum declaration: a map whose
\* discriminator is another one, or that has none.
Unresolved(item) ==
    /\ Kind(item) = "map" /\ ~BadKey(Val(item))
    /\ IF HasKey(Val(item), "__struct__")
       THEN HasDiscriminator(item)
            /\ Discriminator(item) \notin {ClassStructName, EnumStructName}
       ELSE TRUE
\* The error owed to such an item.
UnresolvedError(item) ==
    IF HasKey(Val(item), "__struct__")
    THEN "Unsupported TypeBuilder struct: " \o Discriminator(item)
    ELSE "Missing __struct__ field"
\* An enum declaration with a name and a list of EnumValue structs.
IsEnumDecl(item) ==
    /\ Kind(item) = "map"
    /\ DOMAIN Val(item) = {Atom("__struct__"), Atom("name"), Atom("values")}
    /\ Val(item)[Atom("__struct__")] = Atom(EnumStructName)
    /\ Kind(Val(item)[Atom("name")]) = "str"
    /\ Kind(Val(item)[Atom("values")]) = "list"
    /\ \A i \in DOMAIN Val(Val(item)[Atom("values")]) :
          /\ Kind(Val(Val(item)[Atom("values")])[i]) = "map"
          /\ IsVariant(Val(Val(item)[Atom("values")])[i])
          /\ Atom("description") \in DOMAIN Val(Val(Val(item)[Atom("values")])[i]) =>
                Val(Val(Val(item)[Atom("values")])[i])[Atom("description")] # Nil
\* What a well-formed item adds to a registry.
RECURSIVE AddFields(_, _, _, _)
AddFields(r, c, fields, j) ==
    IF j > Len(fields) THEN r
    ELSE AddFields(set_type(upsert_property(r, c, FieldName(fields[j])), c,
                            FieldName(fields[j]), TypeOfSimple(FieldType(fields[j]))),
                   c, fields, j + 1)
RECURSIVE AddVariants(_, _, _, _)
AddVariants(r, e, vs, j) ==
    IF j > Len(vs) THEN r
    ELSE AddVariants(
            IF VariantDesc(vs[j]) = <<>> THEN upsert_value(r, e, VariantName(vs[j]))
            ELSE value_with_meta(upsert_value(r, e, VariantName(vs[j])), e,
                                 VariantName(vs[j]), VariantDesc(vs[j])[1]),
            e, vs, j + 1)
Applied(r, item) ==
    IF IsFlatClass(item)
    THEN AddFields(upsert_class(r, ItemName(item)), ItemName(item), ItemFields(item), 1)
    ELSE AddVariants(upsert_enum(r, ItemName(item)), ItemName(item),
                     Val(Val(item)[Atom("values")]), 1)
RECURSIVE AppliedUpTo(_, _)
AppliedUpTo(items, k) ==
    IF k = 0 THEN EmptyReg ELSE Applied(AppliedUpTo(items, k - 1), items[k])
\* The first unresolved item of a list whose earlier items are well formed,
\* 0 when there is none.
IsFirstUnresolved(items, k) ==
    /\ Unresolved(items[k])
    /\ \A j \in 1..(k - 1) : IsFlatClass(items[j]) \/ IsEnumDecl(items[j])
FirstUnresolved(items) ==
    IF \E k \in DOMAIN items : IsFirstUnresolved(items, k)
    THEN CHOOSE k \in DOMAIN items : IsFirstUnresolved(items, k)
    ELSE 0

\* C15: the items are applied in list order up to the first that fails.  When
\* item k has a discriminator that is neither the class nor the enum marker,
\* or has none, the parse never passes item k and does not succeed; it fails
\* with the error that names the discriminator (or tells that it is missing),
\* and the registry is then the one the items before k built, in their order:
\* nothing of a later item is in it.
C15_DispatchInOrder ==
    (Kind(decls) = "list" /\ FirstUnresolved(Val(decls)) # 0) =>
        /\ pos < FirstUnresolved(Val(decls)) /\ pst \in {"run", "err"}
        /\ reg = AppliedUpTo(Val(decls), pos)
        /\ pst = "err" =>
              /\ pos = FirstUnresolved(Val(decls)) - 1
              /\ perr = UnresolvedError(Val(decls)[FirstUnresolved(Val(decls))])

\* The second of two items had an unknown discriminator: the parse has failed
\* there, the class of the first item being in the registry.
C15_FailedAtSecondItem ==
    /\ pst = "err" /\ Kind(decls) = "list" /\ Len(Val(decls)) = 2
    /\ FirstUnresolved(Val(decls)) = 2 /\ HasKey(Val(Val(decls)[2]), "__struct__")
    /\ perr = "Unsupported TypeBuilder struct: Elixir.BamlElixir.TypeBuilder.Other"
    /\ reg.classes # <<>>


\* A class or enum shape as a type payload: with a name and a list (of simple
\* fields, or of variants), with a name and no list, or without a name.
IsNestedShape(ty) ==
    /\ HasDiscriminator(ty) /\ Discriminator(ty) \in {ClassStructName, EnumStructName}
    /\ \/ ~HasKey(Val(ty), "name")
       \/ /\ Atom("name") \in DOMAIN Val(ty) /\ Kind(Val(ty)[Atom("name")]) = "str"
          /\ \/ IsFlatClass(ty) /\ ItemName(ty) # "A"
             \/ IsEnumDecl(ty)
             \/ \E k \in {Atom("fields"), Atom("values")} :
                   /\ DOMAIN Val(ty) = {Atom("__struct__"), Atom("name"), k}
                   /\ Val(ty)[k] = Nil
HasList(ty) == IsFlatClass(ty) \/ IsEnumDecl(ty)
ReferenceTo(ty) ==
    IF Discriminator(ty) = ClassStructName THEN TClass(ItemName(ty)) ELSE TEnum(ItemName(ty))
NoNameError(ty) ==
    IF Discriminator(ty) = ClassStructName THEN "Could not extract class name"
    ELSE "Could not extract enum name"
\* The registry with the class A alone, before its field f.
OnlyA == upsert_class(EmptyReg, "A")

FailingUnion == UnionS(<<InlineB, FloatT(1)>>)
FailingPayloads ==
    {FloatT(1), ListT(<<Atom("int")>>), MapT(Struct(ClassStructName)),
     MapT(Struct(EnumStructName)), FailingUnion}
FailingError(ty) ==
    CASE Kind(ty) \in {"float", "list"} -> "Unsupported field type"
      [] ty = FailingUnion -> "Unsupported field type"
      [] OTHER -> NoNameError(ty)
\* A field with a name and a type payload that does not parse.
HasFailingType(fld) ==
    /\ Kind(fld) = "map"
    /\ DOMAIN Val(fld) = {Atom("__struct__"), Atom("name"), Atom("type")}
    /\ Val(fld)[Atom("__struct__")] = Atom(FieldStructName)
    /\ Kind(Val(fld)[Atom("name")]) = "str"
    /\ Val(fld)[Atom("type")] \in FailingPayloads
\* The first such field of a list whose earlier fields are simple, 0 when
\* there is none.
IsFirstFailingType(fields, k) ==
    HasFailingType(fields[k]) /\ \A j \in 1..(k - 1) : IsSimpleField(fields[j])
FirstFailingType(fields) ==
    IF \E k \in DOMAIN fields : IsFirstFailingType(fields, k)
    THEN CHOOSE k \in DOMAIN fields : IsFirstFailingType(fields, k)
    ELSE 0
\* One class A is declared, and the type of a field of it does not parse.
OneClassFailingType ==
    /\ Kind(decls) = "list" /\ Len(Val(decls)) = 1
    /\ IsClassDecl(Val(decls)[1]) /\ ItemName(Val(decls)[1]) = "A"
    /\ FirstFailingType(ItemFields(Val(decls)[1])) # 0
\* One class A is declared whose fields payload is no list.
OneClassWithoutList ==
    /\ Kind(decls) = "list" /\ Len(Val(decls)) = 1
    /\ Kind(Val(decls)[1]) = "map"
    /\ DOMAIN Val(Val(decls)[1]) = {Atom("__struct__"), Atom("name"), Atom("fields")}
    /\ Val(Val(decls)[1])[Atom("__struct__")] = Atom(ClassStructName)
    /\ Val(Val(decls)[1])[Atom("name")] = Str("A")
    /\ Kind(Val(Val(decls)[1])[Atom("fields")]) # "list"
\* The registry before field k of class A: A with the fields before k.
BeforeField(fields, k) == AddFields(OnlyA, "A", SubSeq(fields, 1, k - 1), 1)

\* C19: when the type of field k of a class does not parse, the declaration
\* fails with the error of the type; field k is not added to the class, the
\* class entry stays (with the fields before k, none when k is the first),
\* and an inline class definition parsed earlier in the type, as the first
\* alternative of a union, stays too.  A class whose fields payload is no list
\* fails and its entry stays as well.
C19_FailingFieldType ==
    /\ OneClassFailingType =>
          /\ pst \in {"run", "err"}
          /\ pst = "err" =>
                /\ perr = FailingError(FieldType(ItemFields(Val(decls)[1])[
                                FirstFailingType(ItemFields(Val(decls)[1]))]))
                /\ reg.enums = <<>>
                /\ ClassNamed(reg, "A") =
                      ClassNamed(BeforeField(ItemFields(Val(decls)[1]),
                                    FirstFailingType(ItemFields(Val(decls)[1]))), "A")
                /\ reg =
                      IF FieldType(ItemFields(Val(decls)[1])[
                            FirstFailingType(ItemFields(Val(decls)[1]))]) = FailingUnion
                      THEN Applied(BeforeField(ItemFields(Val(decls)[1]),
                                      FirstFailingType(ItemFields(Val(decls)[1]))), InlineB)
                      ELSE BeforeField(ItemFields(Val(decls)[1]),
                              FirstFailingType(ItemFields(Val(decls)[1])))
    /\ OneClassWithoutList =>
          /\ pst \in {"run", "err"}
          /\ pst = "err" => perr = "Class fields must be a list" /\ reg = OnlyA

\* The union of an inline definition of B and a float, as the type of the
\* only field of A, has failed: A has no field, and B is in the registry.
C19_UnionFailedAfterInlineClass ==
    /\ pst = "err" /\ decls = FieldOfA(FailingUnion)
    /\ ClassNamed(reg, "A").props = <<>>
    /\ NamesIn(reg.classes) = {"A", "B"}


-----------------------------------------------------------------------------
(* Further properties of the bridge, checked under Spec.                   *)

\* The message owed to a partial result, taken alone.
MessagesFor(p) ==
    IF Encodes(p)
    THEN <<[tag |-> "partial", term |-> Val(baml_value_to_term(p.val))]>>
    ELSE <<>>

\* C17: in a stream, each partial result p gives the caller the one message
\* (partial, encode(p)) when it parses and encodes, and none otherwise,
\* whatever the partial results before it were; the messages are sent in the
\* order of the events, while the stream has no outcome yet; the outcome is
\* the one of the final result alone, and no message follows it.
C17_PartialsInOrder ==
    [][\A c \in Calls :
          calls[c].kind = "stream" =>
             /\ Len(calls'[c].events) \in {Len(calls[c].events), Len(calls[c].events) + 1}
             /\ SubSeq(calls'[c].events, 1, Len(calls[c].events)) = calls[c].events
             /\ Len(calls'[c].events) = Len(calls[c].events) =>
                   mailbox'[c] = mailbox[c]
             /\ Len(calls'[c].events) = Len(calls[c].events) + 1 =>
                   /\ mailbox'[c] =
                         mailbox[c] \o MessagesFor(calls'[c].events[Len(calls'[c].events)])
                   /\ calls[c].outcome = NoOutcome /\ calls'[c].outcome = NoOutcome
             /\ (calls[c].pc = "streaming" /\ calls'[c].pc = "done") =>
                   calls'[c].outcome = StreamFinal(calls'[c].final)
             /\ calls[c].pc = "done" => calls'[c] = calls[c]
      ]_vars

\* A stream has ended whose first partial result was dropped and whose second
\* was sent: the caller has the one message.
C17_SecondPartialSent ==
    \E c \in Calls :
        /\ calls[c].kind = "stream" /\ calls[c].pc = "done"
        /\ Len(calls[c].events) = 2
        /\ ~Encodes(calls[c].events[1]) /\ Encodes(calls[c].events[2])
        /\ mailbox[c] = MessagesFor(calls[c].events[2])


-----------------------------------------------------------------------------
(* Properties of two interleaved calls, checked under SpecPair.            *)

\* What the declarations of a caller mention: the names of the classes and
\* enums a registry holds.
NamesOf(r) == NamesIn(r.classes) \cup NamesIn(r.enums)

\* C18, as stated: whatever the interleaving of two calls, a call that gives
\* a list of declarations has its engine invoked with a registry of its own,
\* which holds the classes and enums of its own list and nothing of the other
\* call's; a call that gives no declarations has it invoked with no registry.
C18_RegistryPerCall ==
    \A c \in Pair :
        Invoked(c) =>
            /\ calls[c].tb = Nil => calls[c].engine.tb = None
            /\ DeclarationsParse(c) =>
                  /\ calls[c].engine.tb.some
                  /\ calls[c].engine.tb.reg = parse_type_builder_spec(calls[c].tb, EmptyReg).reg
                  /\ \A d \in Pair \ {c} :
                        DeclarationsParse(d) =>
                            NamesOf(calls[c].engine.tb.reg)
                              \cap (NamesOf(parse_type_builder_spec(calls[d].tb, EmptyReg).reg)
                                    \ NamesOf(parse_type_builder_spec(calls[c].tb, EmptyReg).reg))
                            = {}

\* The engine has been invoked for each of two calls, which gave different
\* declaration lists that parse.
C18_TwoCallsInvoked ==
    /\ \A c \in Pair : Invoked(c) /\ DeclarationsParse(c)
    /\ calls["c1"].tb # calls["c2"].tb

====
